---- MODULE Spec2Model ----
(***************************************************************************)
(* Model of SparkConnector/Spark-Local-Snowflake.ipynb: the driver         *)
(* installation bash cell and the four Python cells of the notebook        *)
(* (sc.stop(), Spark context, credentials, data import), run in any order  *)
(* by one Jupyter kernel.                                                  *)
(*                                                                         *)
(* File names, metadata lines and version strings are sequences of tokens, *)
(* so that globbing, grep and awk are computed as the shell computes      *)
(* them.                                                                  *)
(***************************************************************************)
EXTENDS Integers, Sequences, FiniteSets, TLC

VARIABLES
    \* ---- the maven repository (environment of the bash cell)
    latest,         \* latest[p]: number of the latest published version of product p
    \* ---- /home/ec2-user/snowflake and the bash cell's variables
    dir,            \* the artifact files in SFC_DIR (file names)
    metadata_xml,   \* content of SFC_DIR/maven-metadata.xml, or NoFile
    bpc,            \* position of the bash cell
    PRODUCT,        \* index in PRODUCTS of the loop variable
    VERSION,        \* $VERSION
    DRIVER,         \* $DRIVER
    \* ---- history of the last run of the bash cell (read by the properties only)
    ran,            \* whether the bash cell was ever started
    dirAtStart,     \* dir when the run started
    latestAtFetch,  \* latestAtFetch[p]: latest[p] when line 46 ran for product p
    fetchOk,        \* fetchOk[p]: line 46 stored the well-formed metadata of p
    downloads,      \* downloads[p]: number of times line 52 ran for product p
    \* ---- the Python kernel
    sc,             \* the name sc: None or a context handle
    spark,          \* the name spark: None or the handle its SQLContext wraps
    live,           \* the context handles that are live in the process
    created,        \* number of context handles created so far
    sfc_jars,       \* the name sfc_jars: None or the listing of *.jar
    param_values,   \* the name param_values: None or a mapping name -> value
    request,        \* the last read request handed to the connector, or None
    df,             \* the name df: None or the query result
    err             \* outcome of the last Python cell

provVars == <<latest, dir, metadata_xml, bpc, PRODUCT, VERSION, DRIVER,
              ran, dirAtStart, latestAtFetch, fetchOk, downloads>>
kernelVars == <<sc, spark, live, created, sfc_jars, param_values, request, df, err>>
vars == <<provVars, kernelVars>>

\* A Python name that is not bound, and one bound to v.
Unbound == [bound |-> FALSE]
Bound(v) == [bound |-> TRUE, value |-> v]

\* A file that does not exist, and one holding the lines ls.
NoFile == [exists |-> FALSE]
File(ls) == [exists |-> TRUE, lines |-> ls]

\* ------------------------------------------------------------------ bounds
MaxVersion == 2     \* versions 1..MaxVersion are published over time
MaxHandles == 3     \* at most MaxHandles Spark contexts are created
MaxMissing == 1     \* the parameter store lacks at most MaxMissing requested names

Min(S) == CHOOSE x \in S : \A y \in S : x <= y

\* ------------------------------------------------------- the bash cell
\* PRODUCTS='snowflake-jdbc spark-snowflake_2.11'
PRODUCTS == << <<"snowflake", "-", "jdbc">>, <<"spark", "-", "snowflake", "_2.11">> >>

Products == 1..Len(PRODUCTS)

\* The text of version number n as it appears in the metadata and in file names.
VersionText(n) == <<ToString(n)>>

\* DRIVER=$PRODUCT-$VERSION.jar
DriverName(product, version) == product \o <<"-">> \o version \o <<".jar">>

\* The glob $PRODUCT*: the names that start with the product name.
GlobMatches(product, name) ==
    /\ Len(name) >= Len(product)
    /\ SubSeq(name, 1, Len(product)) = product

FilesOf(product, d) == {f \in d : GlobMatches(product, f)}

\* maven-metadata.xml as the repository serves it for a product whose latest
\* version is n: one element per line.
WellFormed(n) ==
    << <<"<", "metadata", ">">>,
       <<"<", "versioning", ">">>,
       <<"<", "latest", ">">> \o VersionText(n) \o <<"<", "/latest", ">">>,
       <<"<", "release", ">">> \o VersionText(n) \o <<"<", "/release", ">">>,
       <<"<", "/versioning", ">">>,
       <<"<", "/metadata", ">">> >>

\* Malformed responses: an error page, an empty element, an element whose value
\* is on a line of its own.
ErrorPage == << <<"<", "html", ">">>, <<"<", "/html", ">">> >>
EmptyLatest == << <<"<", "metadata", ">">>, <<"<", "latest", "/", ">">>, <<"<", "/metadata", ">">> >>
SplitLatest == << <<"<", "latest", ">">>, <<"3">>, <<"<", "/latest", ">">> >>
Malformed == {ErrorPage, EmptyLatest, SplitLatest}

\* grep latest: the lines holding the word.
GrepLatest(line) == \E i \in 1..Len(line) : line[i] \in {"latest", "/latest"}

\* awk -F sep '{ print $1 }'
AwkField1(line, sep) ==
    LET at == {i \in 1..Len(line) : line[i] = sep}
    IN  IF at = {} THEN line ELSE SubSeq(line, 1, Min(at) - 1)

\* awk -F sep '{ print $2 }'
AwkField2(line, sep) ==
    LET at == {i \in 1..Len(line) : line[i] = sep}
    IN  IF at = {} THEN <<>>
        ELSE AwkField1(SubSeq(line, Min(at) + 1, Len(line)), sep)

RECURSIVE JoinLines(_)
JoinLines(ls) ==
    IF ls = <<>> THEN <<>>
    ELSE Head(ls) \o <<"\n">> \o JoinLines(Tail(ls))

\* $( ... ) drops the trailing newlines of the output.
RECURSIVE StripTrailingNewlines(_)
StripTrailingNewlines(s) ==
    IF s # <<>> /\ s[Len(s)] = "\n"
    THEN StripTrailingNewlines(SubSeq(s, 1, Len(s) - 1))
    ELSE s

\* VERSION=$(grep latest maven-metadata.xml | awk -F">" '{ print $2 }' | awk -F"<" '{ print $1 }')
\* grep on a missing file prints nothing on stdout.
ParseVersion(file) ==
    IF ~file.exists THEN <<>>
    ELSE LET hits == SelectSeq(file.lines, GrepLatest)
             out == [i \in 1..Len(hits) |-> AwkField1(AwkField2(hits[i], ">"), "<")]
         IN  StripTrailingNewlines(JoinLines(out))

\* The versions of product p the repository serves.
Published(p) == {VersionText(n) : n \in 1..latest[p]}

\* What the repository can answer to line 46 for product p: nothing (the
\* fetch fails), the metadata of p, or a malformed document.
MetadataResponses(p) == {NoFile, File(WellFormed(latest[p]))} \cup {File(m) : m \in Malformed}

\* wget never overwrites: it stores the response under the name only when no
\* file of that name exists (otherwise under name.1, which nothing reads).
WgetStore(existing, response) ==
    IF existing.exists \/ ~response.exists THEN existing ELSE response

\* A run of line 51 that deletes nothing.
KeepStale(product, d) == d

\* rm $PRODUCT* 2>/dev/null
RemoveStale(product, d) == d \ FilesOf(product, d)

\* wget ".../$PRODUCT/$VERSION/$DRIVER": the file is stored when the repository
\* serves that version and the transfer succeeds.
WgetDriver(p, version, driver, d, transferOk) ==
    IF transferOk /\ version \in Published(p) /\ driver \notin d
    THEN d \cup {driver}
    ELSE d

\* Lines 40-45: the cell starts; the loop takes the first product.
BashStart ==
    /\ bpc = "idle"
    /\ bpc' = "46"
    /\ PRODUCT' = 1
    /\ VERSION' = <<>>
    /\ DRIVER' = <<>>
    /\ ran' = TRUE
    /\ dirAtStart' = dir
    /\ latestAtFetch' = [p \in Products |-> latest[p]]
    /\ fetchOk' = [p \in Products |-> FALSE]
    /\ downloads' = [p \in Products |-> 0]
    /\ UNCHANGED <<latest, dir, metadata_xml, kernelVars>>

\* Line 46: wget ".../$PRODUCT/maven-metadata.xml"
FetchMetadata ==
    /\ bpc = "46"
    /\ \E response \in MetadataResponses(PRODUCT) :
          /\ metadata_xml' = WgetStore(metadata_xml, response)
          /\ fetchOk' = [fetchOk EXCEPT ![PRODUCT] =
                            metadata_xml' = File(WellFormed(latest[PRODUCT]))]
    /\ latestAtFetch' = [latestAtFetch EXCEPT ![PRODUCT] = latest[PRODUCT]]
    /\ bpc' = "47"
    /\ UNCHANGED <<latest, dir, PRODUCT, VERSION, DRIVER, ran, dirAtStart,
                   downloads, kernelVars>>

\* Lines 47-48: VERSION=$(...), DRIVER=$PRODUCT-$VERSION.jar
ResolveVersion ==
    /\ bpc = "47"
    /\ VERSION' = ParseVersion(metadata_xml)
    /\ DRIVER' = DriverName(PRODUCTS[PRODUCT], VERSION')
    /\ bpc' = "49"
    /\ UNCHANGED <<latest, dir, metadata_xml, PRODUCT, ran, dirAtStart,
                   latestAtFetch, fetchOk, downloads, kernelVars>>

\* A test that also skips the download when the version is empty.
TestDriverSkipsEmptyVersion ==
    /\ bpc = "49"
    /\ bpc' = IF DRIVER \notin dir /\ VERSION # <<>> THEN "51" ELSE "54"
    /\ UNCHANGED <<latest, dir, metadata_xml, PRODUCT, VERSION, DRIVER, ran,
                   dirAtStart, latestAtFetch, fetchOk, downloads, kernelVars>>

\* Line 49: if [[ ! -e $DRIVER ]]
TestDriver ==
    /\ bpc = "49"
    /\ bpc' = IF DRIVER \notin dir THEN "51" ELSE "54"
    /\ UNCHANGED <<latest, dir, metadata_xml, PRODUCT, VERSION, DRIVER, ran,
                   dirAtStart, latestAtFetch, fetchOk, downloads, kernelVars>>

\* Line 51: rm $PRODUCT*
DeleteStale ==
    /\ bpc = "51"
    /\ dir' = RemoveStale(PRODUCTS[PRODUCT], dir)
    /\ bpc' = "52"
    /\ UNCHANGED <<latest, metadata_xml, PRODUCT, VERSION, DRIVER, ran,
                   dirAtStart, latestAtFetch, fetchOk, downloads, kernelVars>>

\* Line 52: wget the driver
DownloadDriver ==
    /\ bpc = "52"
    /\ \E transferOk \in BOOLEAN :
          dir' = WgetDriver(PRODUCT, VERSION, DRIVER, dir, transferOk)
    /\ downloads' = [downloads EXCEPT ![PRODUCT] = @ + 1]
    /\ bpc' = "54"
    /\ UNCHANGED <<latest, metadata_xml, PRODUCT, VERSION, DRIVER, ran,
                   dirAtStart, latestAtFetch, fetchOk, kernelVars>>

\* Lines 54-55: [ -e maven-metadata.xml ] && rm maven-metadata.xml; done
CleanupAndNext ==
    /\ bpc = "54"
    /\ metadata_xml' = NoFile
    /\ IF PRODUCT < Len(PRODUCTS)
       THEN PRODUCT' = PRODUCT + 1 /\ bpc' = "46"
       ELSE PRODUCT' = PRODUCT /\ bpc' = "idle"
    /\ UNCHANGED <<latest, dir, VERSION, DRIVER, ran, dirAtStart,
                   latestAtFetch, fetchOk, downloads, kernelVars>>

\* The repository publishes a new version of product p.
Publish ==
    /\ \E p \in Products :
          /\ latest[p] < MaxVersion
          /\ latest' = [latest EXCEPT ![p] = @ + 1]
    /\ UNCHANGED <<dir, metadata_xml, bpc, PRODUCT, VERSION, DRIVER, ran,
                   dirAtStart, latestAtFetch, fetchOk, downloads, kernelVars>>

ProvNext ==
    \/ BashStart
    \/ FetchMetadata
    \/ ResolveVersion
    \/ TestDriver
    \/ DeleteStale
    \/ DownloadDriver
    \/ CleanupAndNext
    \/ Publish

\* --------------------------------------------------- the Python cells
\* Line 118: sfc_jars=!ls -d /home/ec2-user/snowflake/*.jar. The listing holds
\* the names ending in .jar, or the complaint of ls when there is none.
ListJars(d) ==
    LET jars == {f \in d : f[Len(f)] = ".jar"}
    IN  IF jars = {} THEN {<<"ls: cannot access">>} ELSE jars

\* A constructor that does not look for an active context.
CreatesAlways(liveSet) == TRUE

\* Line 124: SparkContext(conf=conf) raises ValueError while a context is
\* active in the process (line 63: the context has to be stopped first).
CanCreateContext(liveSet) == liveSet = {}

\* Lines 112-127: the Spark context cell.
ContextCell ==
    /\ bpc = "idle"
    /\ sfc_jars' = Bound(ListJars(dir))
    /\ IF CanCreateContext(live)
       THEN /\ created < MaxHandles
            /\ created' = created + 1
            /\ live' = live \cup {created'}
            /\ sc' = Bound(created')
            /\ spark' = Bound(created')
            /\ err' = "none"
       ELSE /\ err' = "ValueError"
            /\ UNCHANGED <<created, live, sc, spark>>
    /\ UNCHANGED <<provVars, param_values, request, df>>

\* Line 74, uncommented: sc.stop()
StopCell ==
    /\ bpc = "idle"
    /\ IF sc.bound
       THEN live' = live \ {sc.value} /\ err' = "none"
       ELSE live' = live /\ err' = "NameError"
    /\ UNCHANGED <<provVars, sc, spark, created, sfc_jars, param_values, request, df>>

\* Line 63: restarting the kernel ends the process and every name in it.
RestartKernel ==
    /\ bpc = "idle"
    /\ sc' = Unbound
    /\ spark' = Unbound
    /\ live' = {}
    /\ sfc_jars' = Unbound
    /\ param_values' = Unbound
    /\ request' = Unbound
    /\ df' = Unbound
    /\ err' = "none"
    /\ UNCHANGED <<provVars, created>>

\* Lines 148-152
params == <<"/SNOWFLAKE/URL", "/SNOWFLAKE/ACCOUNT_ID", "/SNOWFLAKE/USER_ID",
            "/SNOWFLAKE/PASSWORD", "/SNOWFLAKE/DATABASE", "/SNOWFLAKE/SCHEMA",
            "/SNOWFLAKE/WAREHOUSE", "/SNOWFLAKE/BUCKET", "/SNOWFLAKE/PREFIX">>

Requested == {params[i] : i \in 1..Len(params)}

\* The value the parameter store holds under a name.
StoredValue(name) == <<"value of", name>>

\* ssm.get_parameters(Names=..., WithDecryption=True) on a store that lacks the
\* names in missing: the parameters found, and the names that were not.
GetParameters(names, missing) ==
    [Parameters |-> {[Name |-> n, Value |-> StoredValue(n)] : n \in names \ missing},
     InvalidParameters |-> names \cap missing]

\* Line 163: {k['Name']:k['Value'] for k in response['Parameters']}
BuildDict(response) ==
    [n \in {k.Name : k \in response.Parameters} |->
        (CHOOSE k \in response.Parameters : k.Name = n).Value]

\* Lines 156-164
get_credentials(names, missing) == BuildDict(GetParameters(names, missing))

\* Lines 146-166: the credentials cell.
CredentialsCell ==
    /\ bpc = "idle"
    /\ \E missing \in SUBSET Requested :
          /\ Cardinality(missing) <= MaxMissing
          /\ param_values' = Bound(get_credentials(Requested, missing))
    /\ err' = "none"
    /\ UNCHANGED <<provVars, sc, spark, live, created, sfc_jars, request, df>>

\* Lines 202-210: each option and the credential name it is read from.
OptionSource ==
    [sfURL |-> "/SNOWFLAKE/URL", sfAccount |-> "/SNOWFLAKE/ACCOUNT_ID",
     sfUser |-> "/SNOWFLAKE/USER_ID", sfPassword |-> "/SNOWFLAKE/PASSWORD",
     sfDatabase |-> "/SNOWFLAKE/DATABASE", sfSchema |-> "/SNOWFLAKE/SCHEMA",
     sfWarehouse |-> "/SNOWFLAKE/WAREHOUSE"]

\* A dictionary that reads the user and the password from each other's name.
sfOptionsSwapped(pv) ==
    [o \in DOMAIN OptionSource |->
        IF o = "sfUser" THEN pv["/SNOWFLAKE/PASSWORD"]
        ELSE IF o = "sfPassword" THEN pv["/SNOWFLAKE/USER_ID"]
        ELSE pv[OptionSource[o]]]

\* Lines 202-210
sfOptions(pv) == [o \in DOMAIN OptionSource |-> pv[OptionSource[o]]]

\* A lookup in the dictionary raises KeyError for a name that is not in it.
LookupsSucceed(pv) == \A o \in DOMAIN OptionSource : OptionSource[o] \in DOMAIN pv

\* Line 212
SNOWFLAKE_SOURCE_NAME == "net.snowflake.spark.snowflake"

\* Line 222: limit 5000000
Limit == 5000000

\* Lines 217-218: the literals 273.15, 1.8000 and 32.00 as decimals, each an
\* integer at its own scale (2, 4 and 2 digits after the point).
Kelvin0 == 27315
Factor == 18000
Offset == 3200

\* A conversion that forgets the offset.
ToFahrenheitNoOffset(v) == (v - Kelvin0) * Factor

\* Lines 217-218: (V:main.temp - 273.15) * 1.8000 + 32.00. The argument is in
\* hundredths of a kelvin, the result in millionths of a degree Fahrenheit
\* (the product has 6 digits after the point, so 32.00 is brought to that
\* scale before the sum).
ToFahrenheit(v) == (v - Kelvin0) * Factor + Offset * 10000

\* A query without its limit clause.
Unlimited(n) == n

\* Line 222: the number of rows of a table of n rows that the query returns.
ApplyLimit(n) == IF n > Limit THEN Limit ELSE n

\* Lines 216-222: the query, as the option the request carries.
Query ==
    [select |-> <<"temp_max_far", "temp_min_far", "time", "lat", "lon">>,
     from |-> "snowflake_sample_data.weather.weather_14_total",
     limit |-> Limit]

\* Lines 214-222: the reader's format and options when load() is called.
ReadRequest(pv) ==
    [format |-> SNOWFLAKE_SOURCE_NAME,
     options |-> sfOptions(pv),
     query |-> Query]

\* Sizes of the source table, and temperatures (hundredths of a kelvin) of its
\* first row.
TableSizes == {0, 1, Limit - 1, Limit, Limit + 1}
Temps == {23173, 27315, 37315}

\* Lines 214-223: the result of the query on a table of n rows whose first row
\* has the temperatures tmax and tmin.
QueryResult(n, tmax, tmin) ==
    [materialized |-> TRUE,
     sourceRows |-> n,
     count |-> ApplyLimit(n),
     first |-> IF ApplyLimit(n) = 0 THEN <<>>
               ELSE <<[temp_max |-> tmax, temp_min |-> tmin,
                       temp_max_far |-> ToFahrenheit(tmax),
                       temp_min_far |-> ToFahrenheit(tmin)]>>]

\* Lines 202-223: the data import cell. The dictionary is built first (NameError
\* or KeyError), then spark is looked up (NameError), then load() hands the
\* request to the connector, and describe().show() runs the query, which needs
\* a context that has not been stopped.
DataImportCell ==
    /\ bpc = "idle"
    /\ IF ~param_values.bound
       THEN err' = "NameError" /\ UNCHANGED <<request, df>>
       ELSE IF ~LookupsSucceed(param_values.value)
       THEN err' = "KeyError" /\ UNCHANGED <<request, df>>
       ELSE IF ~spark.bound
       THEN err' = "NameError" /\ UNCHANGED <<request, df>>
       ELSE /\ request' = Bound([sent |-> ReadRequest(param_values.value),
                                 names |-> DOMAIN param_values.value,
                                 handleLive |-> spark.value \in live])
            /\ IF spark.value \in live
               THEN /\ \E n \in TableSizes, tmax \in Temps, tmin \in Temps :
                          df' = Bound(QueryResult(n, tmax, tmin))
                    /\ err' = "none"
               ELSE /\ df' = Bound([materialized |-> FALSE])
                    /\ err' = "StoppedContext"
    /\ UNCHANGED <<provVars, sc, spark, live, created, sfc_jars, param_values>>

KernelNext ==
    \/ ContextCell
    \/ StopCell
    \/ RestartKernel
    \/ CredentialsCell
    \/ DataImportCell

Next == ProvNext \/ KernelNext

\* The state before the notebook is first run: line 41 has just created the
\* driver directory, and the kernel has bound no name.
Init ==
    /\ latest = [p \in Products |-> 1]
    /\ dir = {}
    /\ metadata_xml = NoFile
    /\ bpc = "idle"
    /\ PRODUCT = 1
    /\ VERSION = <<>>
    /\ DRIVER = <<>>
    /\ ran = FALSE
    /\ dirAtStart = {}
    /\ latestAtFetch = [p \in Products |-> 1]
    /\ fetchOk = [p \in Products |-> FALSE]
    /\ downloads = [p \in Products |-> 0]
    /\ sc = Unbound
    /\ spark = Unbound
    /\ live = {}
    /\ created = 0
    /\ sfc_jars = Unbound
    /\ param_values = Unbound
    /\ request = Unbound
    /\ df = Unbound
    /\ err = "none"

\* The whole notebook. The bash cell changes none of the kernel's names and
\* the Python cells change nothing of the bash cell; the one thing a Python
\* cell reads from the directory is the listing bound to sfc_jars. The
\* properties are therefore checked under the two specifications below.
Spec == Init /\ [][Next]_vars

\* The driver installation cell alone, with its repository.
ProvSpec == Init /\ [][ProvNext]_vars

\* The Python cells alone.
KernelSpec == Init /\ [][KernelNext]_vars

\* ------------------------------------------- properties of the bash cell
\* The loop body has finished for product p in the last run (all but the
\* removal of the metadata file, which touches no artifact).
IterationDone(p) ==
    /\ ran
    /\ \/ bpc = "idle"
       \/ PRODUCT > p
       \/ PRODUCT = p /\ bpc = "54"

\* <product>-<latest version>.jar, the latest version being the one the
\* repository had when the metadata of p was requested.
LatestDriver(p) == DriverName(PRODUCTS[p], VersionText(latestAtFetch[p]))

\* C1: after the provisioning loop has finished, for every product exactly one
\* artifact file exists in the directory, and it is <product>-<latest>.jar.
C1_ExactlyLatestAfterProvisioning ==
    (ran /\ bpc = "idle") =>
        \A p \in Products : FilesOf(PRODUCTS[p], dir) = {LatestDriver(p)}

\* C2: when the latest artifact of a product is on disk as the cell starts, the
\* run downloads nothing for that product and leaves its artifact files as
\* they were.
C2_RerunDownloadsNothing ==
    \A p \in Products :
        (IterationDone(p) /\ LatestDriver(p) \in dirAtStart) =>
            /\ downloads[p] = 0
            /\ FilesOf(PRODUCTS[p], dir) = FilesOf(PRODUCTS[p], dirAtStart)

C7_AtMostOneVersionPerProduct ==
    /\ \A p \in Products : Cardinality(FilesOf(PRODUCTS[p], dir)) <= 1
    /\ bpc = "52" => FilesOf(PRODUCTS[PRODUCT], dir) = {}

\* C7 witness: a newer version has replaced the version that was on disk.
C7_Witness ==
    /\ bpc = "54"
    /\ downloads[PRODUCT] = 1
    /\ FilesOf(PRODUCTS[PRODUCT], dirAtStart) # {}
    /\ DRIVER \notin dirAtStart
    /\ FilesOf(PRODUCTS[PRODUCT], dir) = {DRIVER}

\* ------------------------------------------ properties of the Python cells
\* C4: the mapping get_credentials returns has exactly the requested names as
\* its keys, whatever the parameter store answers.
C4_KeySetEqualsRequested ==
    param_values.bound => DOMAIN param_values.value = Requested

\* C5: no read request is built from a mapping that lacks a requested name:
\* the run fails before the request when a name is absent from the response.
C5_NoRequestFromIncompleteMapping ==
    request.bound => request.value.names = Requested

\* C6: at most one context handle is live in the process, and it is the one
\* the name sc is bound to; a run of the context cell that failed with
\* ValueError has left the live handle as the only one.
C6_AtMostOneLiveHandle ==
    /\ Cardinality(live) <= 1
    /\ live \subseteq (IF sc.bound THEN {sc.value} ELSE {})
    /\ err = "ValueError" => Cardinality(live) = 1

\* C6 witness: the first handle was released, a second one created, and a
\* further run of the context cell failed while the second was live.
C6_Witness ==
    /\ err = "ValueError"
    /\ created = 2
    /\ live = {2}

\* C8: the row count of the materialized result never exceeds the limit of
\* the query, and equals the size of the source table when that is below the
\* limit.
C8_RowCountWithinLimit ==
    (df.bound /\ df.value.materialized) =>
        /\ df.value.count <= 5000000
        /\ df.value.sourceRows < 5000000 => df.value.count = df.value.sourceRows

\* C8 witness: a table larger than the limit was queried.
C8_Witness ==
    /\ df.bound
    /\ df.value.materialized
    /\ df.value.sourceRows > 5000000
    /\ df.value.count = 5000000

\* A temperature column of the first row of the result maps 273.15 to 32.0
\* and 373.15 to 212.0 (kelvin in hundredths, Fahrenheit in millionths).
FixedPoints(kelvin, fahrenheit) ==
    /\ kelvin = 27315 => fahrenheit = 32000000
    /\ kelvin = 37315 => fahrenheit = 212000000

\* C9: the conversion of the query, applied to temp_max and to temp_min, maps
\* 273.15 to 32.0 and 373.15 to 212.0.
C9_ConversionFixedPoints ==
    (df.bound /\ df.value.materialized /\ df.value.first # <<>>) =>
        LET row == df.value.first[1]
        IN  /\ FixedPoints(row.temp_max, row.temp_max_far)
            /\ FixedPoints(row.temp_min, row.temp_min_far)

\* C9 witness: a row with temp_max 373.15 and temp_min 273.15 was converted.
C9_Witness ==
    /\ df.bound
    /\ df.value.materialized
    /\ df.value.first # <<>>
    /\ df.value.first[1].temp_max = 37315
    /\ df.value.first[1].temp_min = 27315

\* The seven options of the request, each with the stored value of its
\* credential name, the format and the query.
CarriesResolvedOptions(sent) ==
    /\ sent.options =
          [sfURL |-> StoredValue("/SNOWFLAKE/URL"),
           sfAccount |-> StoredValue("/SNOWFLAKE/ACCOUNT_ID"),
           sfUser |-> StoredValue("/SNOWFLAKE/USER_ID"),
           sfPassword |-> StoredValue("/SNOWFLAKE/PASSWORD"),
           sfDatabase |-> StoredValue("/SNOWFLAKE/DATABASE"),
           sfSchema |-> StoredValue("/SNOWFLAKE/SCHEMA"),
           sfWarehouse |-> StoredValue("/SNOWFLAKE/WAREHOUSE")]
    /\ sent.query.limit = 5000000
    /\ sent.format = "net.snowflake.spark.snowflake"

\* C10 as stated: a read request is issued only with a live session handle
\* and a resolved credential mapping, and carries the seven options and the
\* query.
C10_RequestOnlyWithLiveHandle ==
    request.bound =>
        /\ request.value.handleLive
        /\ param_values.bound
        /\ CarriesResolvedOptions(request.value.sent)

\* C10 amended: a read request is issued only when the context cell has
\* succeeded in the running kernel (spark is bound; its context may have been
\* stopped since) and the credential mapping has been resolved; it carries
\* the seven options, each the resolved value of its name, and the query.
C10_RequestOnlyWithBoundSession ==
    request.bound =>
        /\ spark.bound
        /\ spark.value \in 1..created
        /\ param_values.bound
        /\ CarriesResolvedOptions(request.value.sent)

\* C10 witness: a request was handed to the connector after sc.stop().
C10_Witness ==
    /\ request.bound
    /\ ~request.value.handleLive
    /\ err = "StoppedContext"

====
